---------------------------- MODULE Spec2Model ----------------------------
(***************************************************************************)
(* Model of asyncmost_vasiaplaton: the Mattermost client of                *)
(* src/src/asyncmost_vasiaplaton/mattermost.py and the exception classes   *)
(* of src/src/asyncmost_vasiaplaton/exceptions.py.                         *)
(*                                                                         *)
(* Text (URLs aside) is modelled as a sequence of one-character strings,   *)
(* so that JSON encoding and decoding are computed character by character. *)
(* A decoded JSON value is a tagged tuple: <<"None">>, <<"bool", b>>,      *)
(* <<"int", n>>, <<"str", chars>>, <<"list", items>>, <<"dict", pairs>>    *)
(* where pairs is the sequence of <<key chars, value>> in insertion order. *)
(***************************************************************************)
EXTENDS Integers, Sequences, FiniteSets, TLC

(***************************************************************************)
(* Bounds of the model.                                                    *)
(***************************************************************************)
\* longest attachment list given to send_message_with_files
MaxFiles == 2
\* number of tasks that use the same Mattermost instance concurrently
NumTasks == 2

(***************************************************************************)
(* Characters.  A text is a sequence of Unicode code points.               *)
(***************************************************************************)
\* ord(ch) of a printable ASCII character, U+0020 .. U+007E
Ord(ch) ==
    CASE ch = " " -> 32 [] ch = "!" -> 33 [] ch = "\"" -> 34 [] ch = "#" -> 35 [] ch = "$" -> 36
      [] ch = "%" -> 37 [] ch = "&" -> 38 [] ch = "'" -> 39 [] ch = "(" -> 40 [] ch = ")" -> 41
      [] ch = "*" -> 42 [] ch = "+" -> 43 [] ch = "," -> 44 [] ch = "-" -> 45 [] ch = "." -> 46
      [] ch = "/" -> 47 [] ch = "0" -> 48 [] ch = "1" -> 49 [] ch = "2" -> 50 [] ch = "3" -> 51
      [] ch = "4" -> 52 [] ch = "5" -> 53 [] ch = "6" -> 54 [] ch = "7" -> 55 [] ch = "8" -> 56
      [] ch = "9" -> 57 [] ch = ":" -> 58 [] ch = ";" -> 59 [] ch = "<" -> 60 [] ch = "=" -> 61
      [] ch = ">" -> 62 [] ch = "?" -> 63 [] ch = "@" -> 64 [] ch = "A" -> 65 [] ch = "B" -> 66
      [] ch = "C" -> 67 [] ch = "D" -> 68 [] ch = "E" -> 69 [] ch = "F" -> 70 [] ch = "G" -> 71
      [] ch = "H" -> 72 [] ch = "I" -> 73 [] ch = "J" -> 74 [] ch = "K" -> 75 [] ch = "L" -> 76
      [] ch = "M" -> 77 [] ch = "N" -> 78 [] ch = "O" -> 79 [] ch = "P" -> 80 [] ch = "Q" -> 81
      [] ch = "R" -> 82 [] ch = "S" -> 83 [] ch = "T" -> 84 [] ch = "U" -> 85 [] ch = "V" -> 86
      [] ch = "W" -> 87 [] ch = "X" -> 88 [] ch = "Y" -> 89 [] ch = "Z" -> 90 [] ch = "[" -> 91
      [] ch = "\\" -> 92 [] ch = "]" -> 93 [] ch = "^" -> 94 [] ch = "_" -> 95 [] ch = "a" -> 97
      [] ch = "b" -> 98 [] ch = "c" -> 99 [] ch = "d" -> 100 [] ch = "e" -> 101 [] ch = "f" -> 102
      [] ch = "g" -> 103 [] ch = "h" -> 104 [] ch = "i" -> 105 [] ch = "j" -> 106 [] ch = "k" -> 107
      [] ch = "l" -> 108 [] ch = "m" -> 109 [] ch = "n" -> 110 [] ch = "o" -> 111 [] ch = "p" -> 112
      [] ch = "q" -> 113 [] ch = "r" -> 114 [] ch = "s" -> 115 [] ch = "t" -> 116 [] ch = "u" -> 117
      [] ch = "v" -> 118 [] ch = "w" -> 119 [] ch = "x" -> 120 [] ch = "y" -> 121 [] ch = "z" -> 122
      [] ch = "{" -> 123 [] ch = "|" -> 124 [] ch = "}" -> 125 [] ch = "~" -> 126

\* the text made of the given printable characters
T(chars) == [i \in 1..Len(chars) |-> Ord(chars[i])]

QUOTE == 34
BACKSLASH == 92
ZERO == 48
NINE == 57
LOWER_A == 97
LOWER_F == 102
UPPER_A == 65
UPPER_F == 70
LOWER_U == 117
MINUS == 45
PLUS == 43
DOT == 46
SPACE == 32
TILDE == 126
SLASH == 47
COMMA == 44
COLON == 58
LBRACE == 123
RBRACE == 125
LBRACKET == 91
RBRACKET == 93
LOWER_E == 101
UPPER_E == 69
LOWER_B == 98
LOWER_N == 110
LOWER_R == 114
LOWER_T == 116
BACKSPACE == 8
TAB == 9
NEWLINE == 10
FORMFEED == 12
RETURN == 13

(***************************************************************************)
(* Python values.                                                          *)
(***************************************************************************)
PyNone == <<"None">>
PyBool(b) == <<"bool", b>>
PyInt(n) == <<"int", n>>
PyStr(s) == <<"str", s>>
PyList(items) == <<"list", items>>
PyDict(pairs) == <<"dict", pairs>>
\* the float nearest to sign m * 10^e, with m >= 0 not a multiple of 10
\* (m = 0, e = 0 for zero); and the floats nan, inf, -inf.  Two decimals of
\* at most 15 significant digits in the normal range denote the same float
\* only when they are equal, so this form is canonical there; integers and
\* mantissas are those TLC can hold, below 2^31.
PyFloat(sign, m, e) == <<"float", sign, m, e>>
PyNaN == <<"float", "nan">>
PyInf == <<"float", "inf">>
PyNegInf == <<"float", "-inf">>

\* dict(pairs): a key met again keeps its position and takes the new value
DictSet(pairs, k, v) ==
    IF \E n \in 1..Len(pairs) : pairs[n][1] = k
    THEN [n \in 1..Len(pairs) |-> IF pairs[n][1] = k THEN <<k, v>> ELSE pairs[n]]
    ELSE Append(pairs, <<k, v>>)

\* the words of json.scanner and json.encoder
NULL_TEXT == T(<<"n", "u", "l", "l">>)
TRUE_TEXT == T(<<"t", "r", "u", "e">>)
FALSE_TEXT == T(<<"f", "a", "l", "s", "e">>)
NAN == T(<<"N", "a", "N">>)
INFINITY == T(<<"I", "n", "f", "i", "n", "i", "t", "y">>)
NEG_INFINITY == T(<<"-", "I", "n", "f", "i", "n", "i", "t", "y">>)
ZERO_POINT_ZERO == T(<<"0", ".", "0">>)

RECURSIVE Pow10(_)
Pow10(k) == IF k = 0 THEN 1 ELSE 10 * Pow10(k - 1)

RECURSIVE NumDigits(_)
NumDigits(n) == IF n < 10 THEN 1 ELSE 1 + NumDigits(n \div 10)

RECURSIVE Zeros(_)
Zeros(k) == IF k <= 0 THEN <<>> ELSE <<ZERO>> \o Zeros(k - 1)

(***************************************************************************)
(* json.dumps / the remote service's serializer.                           *)
(***************************************************************************)
\* str(n) of an int
RECURSIVE Digits(_)
Digits(n) ==
    IF n < 0 THEN <<MINUS>> \o Digits(0 - n)
    ELSE IF n < 10 THEN <<ZERO + n>>
    ELSE Digits(n \div 10) \o <<ZERO + (n % 10)>>

\* json.encoder.ESCAPE_DCT: character -> letter of its two-character escape
ESCAPE_DCT ==
    << <<BACKSLASH, BACKSLASH>>, <<QUOTE, QUOTE>>, <<BACKSPACE, LOWER_B>>,
       <<FORMFEED, LOWER_F>>, <<NEWLINE, LOWER_N>>, <<RETURN, LOWER_R>>,
       <<TAB, LOWER_T>> >>

HexDigit(d) == IF d < 10 THEN ZERO + d ELSE LOWER_A + (d - 10)

\* '\\u{0:04x}'.format(n)
EscapeU(n) ==
    <<BACKSLASH, LOWER_U, HexDigit(n \div 4096), HexDigit((n \div 256) % 16),
      HexDigit((n \div 16) % 16), HexDigit(n % 16)>>

\* json.encoder.encode_basestring_ascii, one character
EscapeChar(ch) ==
    IF \E k \in 1..Len(ESCAPE_DCT) : ESCAPE_DCT[k][1] = ch
    THEN <<BACKSLASH, ESCAPE_DCT[CHOOSE k \in 1..Len(ESCAPE_DCT) : ESCAPE_DCT[k][1] = ch][2]>>
    ELSE IF ch >= SPACE /\ ch <= TILDE THEN <<ch>>
    ELSE IF ch < 65536 THEN EscapeU(ch)
    ELSE EscapeU(55296 + (((ch - 65536) \div 1024) % 1024))
         \o EscapeU(56320 + ((ch - 65536) % 1024))

RECURSIVE EscapeString(_)
EscapeString(s) ==
    IF s = <<>> THEN <<>> ELSE EscapeChar(Head(s)) \o EscapeString(Tail(s))

\* float.__repr__ of a finite float, and the names json.dumps gives the others
FloatRepr(v) ==
    IF v = PyNaN THEN NAN
    ELSE IF v = PyInf THEN INFINITY
    ELSE IF v = PyNegInf THEN NEG_INFINITY
    ELSE LET sign == IF v[2] = "-" THEN <<MINUS>> ELSE <<>>
             ds == Digits(v[3])
             D == Len(ds)
             E == v[4] + D - 1
         IN  IF v[3] = 0 THEN sign \o ZERO_POINT_ZERO
             ELSE IF E >= 16 \/ E <= 0 - 5
                  THEN sign \o <<ds[1]>>
                       \o (IF D > 1 THEN <<DOT>> \o SubSeq(ds, 2, D) ELSE <<>>)
                       \o <<LOWER_E, IF E < 0 THEN MINUS ELSE PLUS>>
                       \o (IF E < 10 /\ E > 0 - 10 THEN <<ZERO>> ELSE <<>>)
                       \o Digits(IF E < 0 THEN 0 - E ELSE E)
             ELSE IF E >= D - 1 THEN sign \o ds \o Zeros(E - D + 1) \o <<DOT, ZERO>>
             ELSE IF E >= 0 THEN sign \o SubSeq(ds, 1, E + 1) \o <<DOT>> \o SubSeq(ds, E + 2, D)
             ELSE sign \o <<ZERO, DOT>> \o Zeros(0 - E - 1) \o ds

RECURSIVE Encode(_, _, _), EncodeItems(_, _, _), EncodePairs(_, _, _)
\* the JSON text of value v with item separator isep and key separator ksep
Encode(v, isep, ksep) ==
    CASE v[1] = "None"  -> NULL_TEXT
      [] v[1] = "bool"  -> IF v[2] THEN TRUE_TEXT
                                   ELSE FALSE_TEXT
      [] v[1] = "int"   -> Digits(v[2])
      [] v[1] = "float" -> FloatRepr(v)
      [] v[1] = "str"   -> <<QUOTE>> \o EscapeString(v[2]) \o <<QUOTE>>
      [] v[1] = "list"  -> <<LBRACKET>> \o EncodeItems(v[2], isep, ksep) \o <<RBRACKET>>
      [] v[1] = "dict"  -> <<LBRACE>> \o EncodePairs(v[2], isep, ksep) \o <<RBRACE>>

EncodeItems(items, isep, ksep) ==
    IF items = <<>> THEN <<>>
    ELSE IF Len(items) = 1 THEN Encode(items[1], isep, ksep)
    ELSE Encode(items[1], isep, ksep) \o isep \o EncodeItems(Tail(items), isep, ksep)

EncodePairs(pairs, isep, ksep) ==
    IF pairs = <<>> THEN <<>>
    ELSE LET one == Encode(PyStr(pairs[1][1]), isep, ksep) \o ksep
                      \o Encode(pairs[1][2], isep, ksep)
         IN  IF Len(pairs) = 1 THEN one
             ELSE one \o isep \o EncodePairs(Tail(pairs), isep, ksep)

\* json.dumps(obj) with Python's default separators (", " and ": ")
json_dumps(obj) == Encode(obj, <<COMMA, SPACE>>, <<COLON, SPACE>>)

\* the compact serialization the remote service answers with
ServerJson(v) == Encode(v, <<COMMA>>, <<COLON>>)

(***************************************************************************)
(* json.loads: json.decoder and json.scanner, character by character.      *)
(***************************************************************************)
\* json.decoder.WHITESPACE_STR
Whitespace == {SPACE, TAB, NEWLINE, RETURN}

RECURSIVE SkipWs(_, _)
SkipWs(s, i) ==
    IF i <= Len(s) /\ s[i] \in Whitespace THEN SkipWs(s, i + 1) ELSE i

ParseFail == [ok |-> FALSE, val |-> PyNone, pos |-> 0]
ParseOk(v, p) == [ok |-> TRUE, val |-> v, pos |-> p]

IsDigit(ch) == ch >= ZERO /\ ch <= NINE
DigitValue(ch) == ch - ZERO

IsHexDigit(ch) ==
    \/ IsDigit(ch)
    \/ ch >= LOWER_A /\ ch <= LOWER_F
    \/ ch >= UPPER_A /\ ch <= UPPER_F
HexValue(ch) ==
    IF IsDigit(ch) THEN ch - ZERO
    ELSE IF ch >= LOWER_A THEN 10 + (ch - LOWER_A)
    ELSE 10 + (ch - UPPER_A)

\* json.decoder.BACKSLASH: letter after the backslash -> character
BACKSLASH_DCT ==
    << <<QUOTE, QUOTE>>, <<BACKSLASH, BACKSLASH>>, <<SLASH, SLASH>>,
       <<LOWER_B, BACKSPACE>>, <<LOWER_F, FORMFEED>>, <<LOWER_N, NEWLINE>>,
       <<LOWER_R, RETURN>>, <<LOWER_T, TAB>> >>

\* the four hexadecimal digits s[i..i+3] of a \uXXXX escape
DecodeU(s, i) ==
    IF i + 3 <= Len(s) /\ \A k \in i..(i + 3) : IsHexDigit(s[k])
    THEN ParseOk(4096 * HexValue(s[i]) + 256 * HexValue(s[i + 1])
                 + 16 * HexValue(s[i + 2]) + HexValue(s[i + 3]), i + 4)
    ELSE ParseFail

\* scanstring(s, end) with strict=True: the characters of the string literal
\* whose opening quote precedes s[i]
RECURSIVE ScanString(_, _, _)
ScanString(s, i, acc) ==
    IF i > Len(s) THEN ParseFail
    ELSE IF s[i] = QUOTE THEN ParseOk(acc, i + 1)
    ELSE IF s[i] < 32 THEN ParseFail
    ELSE IF s[i] # BACKSLASH THEN ScanString(s, i + 1, Append(acc, s[i]))
    ELSE IF i + 1 > Len(s) THEN ParseFail
    ELSE IF s[i + 1] # LOWER_U
         THEN IF \E k \in 1..Len(BACKSLASH_DCT) : BACKSLASH_DCT[k][1] = s[i + 1]
              THEN ScanString(s, i + 2, Append(acc,
                       BACKSLASH_DCT[CHOOSE k \in 1..Len(BACKSLASH_DCT) :
                                         BACKSLASH_DCT[k][1] = s[i + 1]][2]))
              ELSE ParseFail
    ELSE LET u == DecodeU(s, i + 2) IN
         IF ~u.ok THEN ParseFail
         ELSE IF u.val >= 55296 /\ u.val <= 56319 /\ i + 7 <= Len(s)
                 /\ s[i + 6] = BACKSLASH /\ s[i + 7] = LOWER_U
              THEN LET u2 == DecodeU(s, i + 8) IN
                   IF ~u2.ok THEN ParseFail
                   ELSE IF u2.val >= 56320 /\ u2.val <= 57343
                        THEN ScanString(s, i + 12, Append(acc,
                                 65536 + 1024 * (u.val - 55296) + (u2.val - 56320)))
                        ELSE ScanString(s, i + 6, Append(acc, u.val))
              ELSE ScanString(s, i + 6, Append(acc, u.val))

\* a run of digits from s[i]: its value, how many there are, where it ends
RECURSIVE ScanDigits(_, _, _, _)
ScanDigits(s, i, acc, cnt) ==
    IF i <= Len(s) /\ IsDigit(s[i])
    THEN ScanDigits(s, i + 1, acc * 10 + DigitValue(s[i]), cnt + 1)
    ELSE [val |-> acc, cnt |-> cnt, pos |-> i]

RECURSIVE StripZeros(_, _)
StripZeros(m, e) ==
    IF m # 0 /\ m % 10 = 0 THEN StripZeros(m \div 10, e + 1) ELSE <<m, e>>

\* the digits after the point without their trailing zeros
RECURSIVE StripFrac(_, _)
StripFrac(val, cnt) ==
    IF cnt > 0 /\ val % 10 = 0 THEN StripFrac(val \div 10, cnt - 1)
    ELSE [val |-> val, cnt |-> cnt]

(***************************************************************************)
(* float(text) where the result is subnormal: a multiple of 2^-1074, the   *)
(* nearest to the decimal, written back as float.__repr__ writes it (the   *)
(* shortest decimal that rounds to it, the closest to it among those).     *)
(* Integers too long for a machine word are sequences of limbs, base       *)
(* LIMB, least significant first.                                          *)
(***************************************************************************)
LIMB == 10000

\* 2^1074: x * 2^1074 counts the units 2^-1074 in x
TWO_POW_1074 ==
    <<4784, 9349, 7410, 7707, 6330, 62, 8646, 2750, 1863, 2532, 3050, 6152,
       3414, 5233, 7695, 2358, 5651, 8100, 6340, 5955, 6491, 3355, 1810, 6986,
       4692, 8342, 74, 8562, 4506, 4727, 7678, 3976, 3412, 3216, 4209, 9077,
       4466, 6136, 5663, 4276, 1742, 9215, 8509, 4073, 3999, 7013, 7686, 7934,
       7385, 873, 3898, 1911, 1681, 8643, 7077, 9518, 1244, 1437, 8370, 9603,
       6891, 9534, 5679, 339, 2743, 3580, 6901, 1835, 1421, 9764, 5664, 495,
       7307, 1891, 3467, 2495, 1835, 3106, 3307, 225, 2024 >>

\* 5^1075 = 2^-1075 * 10^1075: half a unit, in units of 10^-1075
FIVE_POW_1075 ==
    <<8125, 3632, 6672, 1327, 9859, 5320, 3412, 3769, 1454, 2826, 3772, 2138,
       1396, 8545, 5131, 1028, 582, 497, 8324, 9496, 6679, 6948, 7918, 2547,
       836, 1369, 1893, 7255, 5550, 5244, 5657, 5599, 3027, 5628, 8792, 3885,
       9863, 3508, 6682, 8497, 7234, 186, 3891, 8042, 3732, 6239, 7963, 8818,
       3653, 1262, 5249, 6239, 9164, 3865, 1711, 6539, 487, 849, 5753, 5300,
       300, 9184, 4672, 1914, 8046, 1596, 4162, 7860, 7666, 4223, 6113, 5166,
       7458, 3553, 3405, 8951, 96, 6736, 6324, 4017, 5067, 577, 6193, 9677,
       9007, 3633, 4507, 7393, 3785, 2262, 8166, 2082, 4540, 9470, 9659, 9770,
       5499, 648, 3740, 56, 2722, 2728, 6465, 2276, 5746, 3579, 9726, 2465,
       5531, 7801, 3519, 8409, 3433, 9278, 1332, 5855, 2795, 1928, 631, 9037,
       9269, 8576, 15, 757, 5848, 8636, 3669, 6562, 2193, 8249, 5767, 3704,
       319, 5250, 5361, 9936, 284, 9318, 4435, 518, 4491, 8392, 9085, 3922,
       226, 1557, 6595, 5035, 631, 939, 539, 3980, 9387, 9819, 9698, 5177,
       2835, 4633, 8865, 2285, 3477, 8282, 8989, 9961, 817, 1818, 6499, 5932,
       437, 6351, 7753, 5033, 8412, 2792, 8221, 1623, 1307, 2990, 1825, 686,
       3411, 3964, 8284, 7208, 6232, 2920, 3282, 2470 >>

\* the limb of a that counts LIMB^r; 0 above its length
Limb(a, r) == IF r >= 0 /\ r < Len(a) THEN a[r + 1] ELSE 0

\* the limbs lo .. hi of a * (n2 * LIMB^2 + n1 * LIMB + n0) and, after them,
\* the sum of the products and the carry that fall on limb hi + 1, where t
\* is that sum for limb lo; by halves
RECURSIVE BigMulRange(_, _, _, _, _, _, _), BigMulJoin(_, _, _, _, _, _, _)
BigMulRange(a, n0, n1, n2, lo, hi, t) ==
    IF lo = hi
    THEN <<t % LIMB,
           Limb(a, lo + 1) * n0 + Limb(a, lo) * n1 + Limb(a, lo - 1) * n2 + t \div LIMB>>
    ELSE BigMulJoin(a, n0, n1, n2, (lo + hi) \div 2, hi,
                    BigMulRange(a, n0, n1, n2, lo, (lo + hi) \div 2, t))

BigMulJoin(a, n0, n1, n2, mid, hi, low) ==
    SubSeq(low, 1, Len(low) - 1)
    \o BigMulRange(a, n0, n1, n2, mid + 1, hi, low[Len(low)])

\* a * n for 0 <= n < 2^31, in Len(a) + 3 limbs
BigMul(a, n) ==
    SubSeq(BigMulRange(a, n % LIMB, (n \div LIMB) % LIMB, n \div (LIMB * LIMB),
                       0, Len(a) + 2, Limb(a, 0) * (n % LIMB)),
           1, Len(a) + 3)

\* the decimal digit of a that counts 10^r
BigDigit(a, r) == (Limb(a, r \div 4) \div Pow10(r % 4)) % 10

\* a \div 10^r
RECURSIVE BigDiv10(_, _)
BigDiv10(a, r) ==
    IF r >= 4 * Len(a) THEN 0 ELSE BigDiv10(a, r + 1) * 10 + BigDigit(a, r)

\* the highest power of ten from 10^r down whose digits in lo and hi differ
RECURSIVE FirstDifference(_, _, _)
FirstDifference(lo, hi, r) ==
    IF BigDigit(lo, r) # BigDigit(hi, r) THEN r ELSE FirstDifference(lo, hi, r - 1)

\* the units in n / 10^q rounded to nearest (n / 10^q is never half way:
\* n has at least 1074 factors 2 and q is smaller)
SubnormalUnits(n, q) ==
    BigDiv10(n, q) + (IF BigDigit(n, q - 1) >= 5 THEN 1 ELSE 0)

\* the decimal with last digit at 10^p nearest to mid; it is the one
\* between the half-way points below and above mid (hi)
ShortestAt(sign, mid, hi, p) ==
    PyFloat(sign,
            BigDiv10(hi, p + 1) * 10 + BigDigit(mid, p)
            + (IF BigDigit(mid, p - 1) >= 5 THEN 1 ELSE 0),
            p - 1075)

\* float.__repr__ of mid * 10^-1075, where lo and hi (in the same unit) are
\* half way to the floats below and above
Shortest(sign, lo, mid, hi) ==
    ShortestAt(sign, mid, hi, FirstDifference(lo, hi, 4 * Len(hi) - 1))

\* the float k * 2^-1074
Subnormal(sign, k) ==
    IF k = 0 THEN PyFloat(sign, 0, 0)
    ELSE Shortest(sign, BigMul(FIVE_POW_1075, 2 * k - 1), BigMul(FIVE_POW_1075, 2 * k),
                  BigMul(FIVE_POW_1075, 2 * k + 1))

\* float(text) for the decimal sign m * 10^e, m without trailing zeros
RoundFloat(sign, m, e) ==
    IF \/ e + NumDigits(m) - 1 > 308
       \/ /\ e + NumDigits(m) - 1 = 308
          /\ IF NumDigits(m) = 10 THEN m >= 1797693135
             ELSE m * Pow10(9 - NumDigits(m)) >= 179769314
    THEN (IF sign = "-" THEN PyNegInf ELSE PyInf)
    ELSE IF e <= 0 - 324
    THEN Subnormal(sign, SubnormalUnits(BigMul(TWO_POW_1074, m), 0 - e))
    ELSE PyFloat(sign, m, e)

\* float(text) for the decimal sign m * 10^e
MakeFloat(sign, m, e) ==
    IF m = 0 THEN PyFloat(sign, 0, 0)
    ELSE RoundFloat(sign, StripZeros(m, e)[1], StripZeros(m, e)[2])

\* NUMBER_RE, the value: the integer, or float(integer + frac + exp)
NumberValue(neg, ival, isfloat, frac, expneg, exp) ==
    IF isfloat
    THEN ParseOk(MakeFloat(IF neg THEN "-" ELSE "+",
                           IF ival = 0 THEN frac.val
                           ELSE ival * Pow10(frac.cnt) + frac.val,
                           (IF expneg THEN 0 - exp.val ELSE exp.val) - frac.cnt),
                 exp.pos)
    ELSE ParseOk(PyInt(IF neg THEN 0 - ival ELSE ival), exp.pos)

\* where the digits of an exponent that starts at s[p] would begin
ExpDigitsAt(s, p) ==
    IF p + 1 <= Len(s) /\ s[p + 1] \in {MINUS, PLUS} THEN p + 2 ELSE p + 1

\* NUMBER_RE, the group ([eE][-+]?\d+)? at s[frac.pos]
MatchExp(s, neg, ival, hasfrac, frac) ==
    IF /\ frac.pos <= Len(s)
       /\ s[frac.pos] \in {LOWER_E, UPPER_E}
       /\ ExpDigitsAt(s, frac.pos) <= Len(s)
       /\ IsDigit(s[ExpDigitsAt(s, frac.pos)])
    THEN NumberValue(neg, ival, TRUE, StripFrac(frac.val, frac.cnt),
                     s[frac.pos + 1] = MINUS,
                     ScanDigits(s, ExpDigitsAt(s, frac.pos), 0, 0))
    ELSE NumberValue(neg, ival, hasfrac, StripFrac(frac.val, frac.cnt),
                     FALSE, [val |-> 0, cnt |-> 0, pos |-> frac.pos])

\* NUMBER_RE, the group (\.\d+)? at s[int.pos]
MatchFrac(s, neg, int) ==
    IF int.pos + 1 <= Len(s) /\ s[int.pos] = DOT /\ IsDigit(s[int.pos + 1])
    THEN MatchExp(s, neg, int.val, TRUE, ScanDigits(s, int.pos + 1, 0, 0))
    ELSE MatchExp(s, neg, int.val, FALSE, [val |-> 0, cnt |-> 0, pos |-> int.pos])

\* NUMBER_RE, the group (0|[1-9]\d*) at s[p]
MatchInt(s, p, neg) ==
    IF p > Len(s) \/ ~IsDigit(s[p]) THEN ParseFail
    ELSE IF s[p] = ZERO THEN MatchFrac(s, neg, [val |-> 0, cnt |-> 1, pos |-> p + 1])
    ELSE MatchFrac(s, neg, ScanDigits(s, p, 0, 0))

\* json.scanner.NUMBER_RE matched at s[i], and the int or float it denotes
MatchNumber(s, i) ==
    IF i <= Len(s) /\ s[i] = MINUS THEN MatchInt(s, i + 1, TRUE)
    ELSE MatchInt(s, i, FALSE)

StartsWith(s, i, word) ==
    /\ i + Len(word) - 1 <= Len(s)
    /\ SubSeq(s, i, i + Len(word) - 1) = word

RECURSIVE ParseValue(_, _)
RECURSIVE ParseElements(_, _, _), ElementScanned(_, _, _), ElementEnd(_, _, _)
RECURSIVE ParseMembers(_, _, _), MemberKey(_, _, _), MemberColon(_, _, _, _)
RECURSIVE MemberValue(_, _, _, _), MemberEnd(_, _, _)

\* scan_once, a string: r is what scanstring returned
StringValue(r) == IF r.ok THEN ParseOk(PyStr(r.val), r.pos) ELSE ParseFail

\* scan_once, the last two arms: m is the match of NUMBER_RE at s[i]
NumberOrConstant(s, i, m) ==
    IF m.ok THEN m
    ELSE IF StartsWith(s, i, NAN) THEN ParseOk(PyNaN, i + 3)
    ELSE IF StartsWith(s, i, INFINITY) THEN ParseOk(PyInf, i + 8)
    ELSE IF StartsWith(s, i, NEG_INFINITY) THEN ParseOk(PyNegInf, i + 9)
    ELSE ParseFail

\* JSONObject from the first character j after "{" and whitespace
ObjectBody(s, j) ==
    IF j <= Len(s) /\ s[j] = RBRACE THEN ParseOk(PyDict(<<>>), j + 1)
    ELSE ParseMembers(s, j, <<>>)

\* JSONArray from the first character j after "[" and whitespace
ArrayBody(s, j) ==
    IF j <= Len(s) /\ s[j] = RBRACKET THEN ParseOk(PyList(<<>>), j + 1)
    ELSE ParseElements(s, j, <<>>)

\* scan_once(s, idx): the value that starts at s[i]
ParseValue(s, i) ==
    IF i > Len(s) THEN ParseFail
    ELSE IF s[i] = QUOTE THEN StringValue(ScanString(s, i + 1, <<>>))
    ELSE IF s[i] = LBRACE THEN ObjectBody(s, SkipWs(s, i + 1))
    ELSE IF s[i] = LBRACKET THEN ArrayBody(s, SkipWs(s, i + 1))
    ELSE IF StartsWith(s, i, NULL_TEXT) THEN ParseOk(PyNone, i + 4)
    ELSE IF StartsWith(s, i, TRUE_TEXT) THEN ParseOk(PyBool(TRUE), i + 4)
    ELSE IF StartsWith(s, i, FALSE_TEXT) THEN ParseOk(PyBool(FALSE), i + 5)
    ELSE NumberOrConstant(s, i, MatchNumber(s, i))

\* JSONArray: the elements of an array whose next element starts at s[i]
ParseElements(s, i, acc) == ElementScanned(s, acc, ParseValue(s, i))

\* JSONArray after scan_once returned r for an element
ElementScanned(s, acc, r) ==
    IF ~r.ok THEN ParseFail
    ELSE ElementEnd(s, Append(acc, r.val), SkipWs(s, r.pos))

\* JSONArray at the character j after an element and whitespace
ElementEnd(s, items, j) ==
    IF j > Len(s) THEN ParseFail
    ELSE IF s[j] = COMMA THEN ParseElements(s, SkipWs(s, j + 1), items)
    ELSE IF s[j] = RBRACKET THEN ParseOk(PyList(items), j + 1)
    ELSE ParseFail

\* JSONObject: the members of an object whose next key starts at s[i]
ParseMembers(s, i, acc) ==
    IF i > Len(s) \/ s[i] # QUOTE THEN ParseFail
    ELSE MemberKey(s, acc, ScanString(s, i + 1, <<>>))

\* JSONObject after scanstring returned k for a key
MemberKey(s, acc, k) ==
    IF ~k.ok THEN ParseFail ELSE MemberColon(s, acc, k.val, SkipWs(s, k.pos))

\* JSONObject at the character c after a key and whitespace
MemberColon(s, acc, key, c) ==
    IF c > Len(s) \/ s[c] # COLON THEN ParseFail
    ELSE MemberValue(s, acc, key, ParseValue(s, SkipWs(s, c + 1)))

\* JSONObject after scan_once returned r for the value of key
MemberValue(s, acc, key, r) ==
    IF ~r.ok THEN ParseFail
    ELSE MemberEnd(s, DictSet(acc, key, r.val), SkipWs(s, r.pos))

\* JSONObject at the character j after a member and whitespace
MemberEnd(s, pairs, j) ==
    IF j > Len(s) THEN ParseFail
    ELSE IF s[j] = COMMA THEN ParseMembers(s, SkipWs(s, j + 1), pairs)
    ELSE IF s[j] = RBRACE THEN ParseOk(PyDict(pairs), j + 1)
    ELSE ParseFail

\* JSONDecoder.decode after raw_decode returned r: nothing but whitespace
\* may follow the value
Decoded(text, r) ==
    IF r.ok /\ SkipWs(text, r.pos) = Len(text) + 1
    THEN [raised |-> FALSE, exc |-> "none", value |-> r.val]
    ELSE [raised |-> TRUE, exc |-> "JSONDecodeError", value |-> PyNone]

\* json.loads(text): the decoded value, or JSONDecodeError
json_loads(text) == Decoded(text, ParseValue(text, SkipWs(text, 1)))

(***************************************************************************)
(* Exception classes: exceptions.py, and the classes of httpx, json and    *)
(* the builtins that the client meets.                                     *)
(***************************************************************************)
\* the direct base class of each exception class
Base(cls) ==
    CASE cls = "BaseException"              -> "object"
      [] cls = "Exception"                  -> "BaseException"
      [] cls = "MattermostError"            -> "Exception"
      [] cls = "ReqError"                   -> "MattermostError"
      [] cls = "NotFoundError"              -> "ReqError"
      [] cls = "httpx.HTTPError"            -> "Exception"
      [] cls = "httpx.RequestError"         -> "httpx.HTTPError"
      [] cls = "httpx.HTTPStatusError"      -> "httpx.HTTPError"
      [] cls = "httpx.TransportError"       -> "httpx.RequestError"
      [] cls = "httpx.DecodingError"        -> "httpx.RequestError"
      [] cls = "httpx.TooManyRedirects"     -> "httpx.RequestError"
      [] cls = "httpx.TimeoutException"     -> "httpx.TransportError"
      [] cls = "httpx.NetworkError"         -> "httpx.TransportError"
      [] cls = "httpx.ProtocolError"        -> "httpx.TransportError"
      [] cls = "httpx.ProxyError"           -> "httpx.TransportError"
      [] cls = "httpx.UnsupportedProtocol"  -> "httpx.TransportError"
      [] cls = "httpx.ConnectTimeout"       -> "httpx.TimeoutException"
      [] cls = "httpx.ReadTimeout"          -> "httpx.TimeoutException"
      [] cls = "httpx.WriteTimeout"         -> "httpx.TimeoutException"
      [] cls = "httpx.PoolTimeout"          -> "httpx.TimeoutException"
      [] cls = "httpx.ConnectError"         -> "httpx.NetworkError"
      [] cls = "httpx.ReadError"            -> "httpx.NetworkError"
      [] cls = "httpx.WriteError"           -> "httpx.NetworkError"
      [] cls = "httpx.CloseError"           -> "httpx.NetworkError"
      [] cls = "httpx.LocalProtocolError"   -> "httpx.ProtocolError"
      [] cls = "httpx.RemoteProtocolError"  -> "httpx.ProtocolError"
      [] cls = "httpx.InvalidURL"           -> "Exception"
      [] cls = "httpx.CookieConflict"       -> "Exception"
      [] cls = "httpx.StreamError"          -> "RuntimeError"
      [] cls = "httpx.StreamConsumed"       -> "httpx.StreamError"
      [] cls = "httpx.StreamClosed"         -> "httpx.StreamError"
      [] cls = "httpx.ResponseNotRead"      -> "httpx.StreamError"
      [] cls = "httpx.RequestNotRead"       -> "httpx.StreamError"
      [] cls = "RuntimeError"               -> "Exception"
      [] cls = "ValueError"                 -> "Exception"
      [] cls = "JSONDecodeError"            -> "ValueError"
      [] cls = "LookupError"                -> "Exception"
      [] cls = "KeyError"                   -> "LookupError"
      [] cls = "IndexError"                 -> "LookupError"
      [] cls = "TypeError"                  -> "Exception"

\* issubclass(cls, ancestor): what "except ancestor" catches
RECURSIVE IsSubclass(_, _)
IsSubclass(cls, ancestor) ==
    \/ cls = ancestor
    \/ cls # "object" /\ IsSubclass(Base(cls), ancestor)

\* an exception object: its class, its args and its __cause__
NoExc == [cls |-> "none", args |-> <<>>, cause |-> "none"]
Exc(cls, args, cause) == [cls |-> cls, args |-> args, cause |-> cause]

\* the outcome of a coroutine: still running, returned a value, or raised
Pending == [kind |-> "pending", value |-> PyNone, exc |-> NoExc]
Return(v) == [kind |-> "return", value |-> v, exc |-> NoExc]
Raise(e) == [kind |-> "raise", value |-> PyNone, exc |-> e]

(***************************************************************************)
(* The dispatcher: Mattermost._send_get and Mattermost._send_post.         *)
(***************************************************************************)
\* the timeout _send_get passes to client.get
GetTimeout == 10

\* the configuration given to Mattermost.__init__
Config0 == [url |-> "https://mm.example", token |-> "tok", channel_id |-> T(<<"c", "h", "1">>)]

\* headers = {"Authorization": f"Bearer {self.token}"}
AuthHeaders(self) == << <<"Authorization", <<"Bearer ", self.token>> >> >>

\* the request _send_get hands to client.get
GetRequest(self, url, params) ==
    [method |-> "GET", url |-> url, params |-> params, headers |-> AuthHeaders(self),
     data |-> PyNone, content |-> PyNone, timeout |-> PyInt(GetTimeout)]

\* the request _send_post hands to client.post
PostRequest(self, url, data, json_content, content) ==
    [method |-> "POST", url |-> url, params |-> PyNone,
     headers |-> IF data # PyNone /\ json_content
                 THEN Append(AuthHeaders(self), <<"Content-Type", <<"application/json">> >>)
                 ELSE AuthHeaders(self),
     data |-> data, content |-> content, timeout |-> <<"default">>]

\* a narrower clause: except httpx.TimeoutException
ExceptClauseTimeoutOnly(cause) == IsSubclass(cause, "httpx.TimeoutException")

\* except httpx.HTTPError as e
ExceptClause(cause) == IsSubclass(cause, "httpx.HTTPError")

\* every 2xx code taken as success
StatusOk2xx(code) == code \in 200..299

\* result.status_code in [200, 201]
StatusOk(code) == code \in {200, 201}

\* 404 not told apart from the other codes
StatusErrorNo404(code) ==
    Exc("ReqError", <<"Got error status code, ", code>>, "none")

\* the exception raised for a status code outside [200, 201]
StatusError(code) ==
    IF code = 404
    THEN Exc("NotFoundError", <<"Not found somewhere">>, "none")
    ELSE Exc("ReqError", <<"Got error status code, ", code>>, "none")

\* what the last two lines of a dispatcher do with the outcome p of json.loads
Parsed(p) ==
    IF p.raised THEN Raise(Exc(p.exc, <<"decode">>, "none")) ELSE Return(p.value)

\* the decoded body parsed but not returned
ParsedResponseNotReturned(text) ==
    IF json_loads(text).raised THEN Parsed(json_loads(text)) ELSE Return(PyNone)

\* parsed_response = json.loads(result.text); return parsed_response
ParsedResponse(text) == Parsed(json_loads(text))

\* _send_get from the point where client.get completes with reply
send_get(reply) ==
    IF reply.kind = "exception"
    THEN IF ExceptClause(reply.cause)
         THEN Raise(Exc("ReqError", <<reply.cause>>, reply.cause))
         ELSE Raise(Exc(reply.cause, <<>>, "none"))
    ELSE IF ~StatusOk(reply.status_code)
         THEN Raise(StatusError(reply.status_code))
         ELSE ParsedResponse(reply.text)

\* _send_post from the point where client.post completes with reply
send_post(reply) ==
    IF reply.kind = "exception"
    THEN IF ExceptClause(reply.cause)
         THEN Raise(Exc("ReqError", <<reply.cause>>, reply.cause))
         ELSE Raise(Exc(reply.cause, <<>>, "none"))
    ELSE IF ~StatusOk(reply.status_code)
         THEN Raise(StatusError(reply.status_code))
         ELSE ParsedResponse(reply.text)

(***************************************************************************)
(* The client operations.                                                  *)
(***************************************************************************)
K_channel_id == T(<<"c", "h", "a", "n", "n", "e", "l", "_", "i", "d">>)
K_message == T(<<"m", "e", "s", "s", "a", "g", "e">>)
K_file_ids == T(<<"f", "i", "l", "e", "_", "i", "d", "s">>)
K_file_infos == T(<<"f", "i", "l", "e", "_", "i", "n", "f", "o", "s">>)
K_id == T(<<"i", "d">>)
K_client_ids == T(<<"c", "l", "i", "e", "n", "t", "_", "i", "d", "s">>)

\* the request of send_message(message, file_ids)
send_message_request(self, message, file_ids) ==
    LET url == <<self.url, "/api/v4/posts">>
        schema == PyDict(<< <<K_channel_id, PyStr(self.channel_id)>>,
                            <<K_message, PyStr(message)>>,
                            <<K_file_ids, file_ids>> >>)
    IN  PostRequest(self, url, PyStr(json_dumps(schema)), TRUE, PyNone)

\* the request of upload_file(filename, content)
upload_file_request(self, filename, content) ==
    LET url == <<self.url, "/api/v4/files?channel_id=", self.channel_id,
                 "&filename=", filename>>
    IN  PostRequest(self, url, PyNone, FALSE, <<"bytes", content>>)

\* obj[key] for a decoded JSON value obj and a str or int key
GetItem(obj, key) ==
    CASE obj[1] = "dict" ->
           IF key[1] = "str" /\ \E n \in 1..Len(obj[2]) : obj[2][n][1] = key[2]
           THEN Return(obj[2][CHOOSE n \in 1..Len(obj[2]) : obj[2][n][1] = key[2]][2])
           ELSE Raise(Exc("KeyError", <<"key">>, "none"))
      [] obj[1] = "list" ->
           IF key[1] # "int"
           THEN Raise(Exc("TypeError", <<"list indices must be integers">>, "none"))
           ELSE IF key[2] >= 0 /\ key[2] < Len(obj[2])
           THEN Return(obj[2][key[2] + 1])
           ELSE Raise(Exc("IndexError", <<"list index out of range">>, "none"))
      [] obj[1] = "str" ->
           IF key[1] # "int"
           THEN Raise(Exc("TypeError", <<"string indices must be integers">>, "none"))
           ELSE IF key[2] >= 0 /\ key[2] < Len(obj[2])
           THEN Return(PyStr(<<obj[2][key[2] + 1]>>))
           ELSE Raise(Exc("IndexError", <<"string index out of range">>, "none"))
      [] OTHER -> Raise(Exc("TypeError", <<"object is not subscriptable">>, "none"))

\* upload_file from the point where _send_post completes with outcome r:
\* return r["file_infos"][0]["id"]
upload_file(r) ==
    IF r.kind = "raise" THEN r
    ELSE LET a == GetItem(r.value, PyStr(K_file_infos)) IN
         IF a.kind = "raise" THEN a
         ELSE LET b == GetItem(a.value, PyInt(0)) IN
              IF b.kind = "raise" THEN b
              ELSE GetItem(b.value, PyStr(K_id))

\* every failure of _send_post caught and dropped
send_message_swallow(r) == Return(PyNone)

\* send_message from the point where _send_post completes with outcome r
send_message(r) ==
    IF r.kind = "raise" THEN r ELSE Return(PyNone)


(***************************************************************************)
(* Inputs: what callers pass and what the network answers.                 *)
(***************************************************************************)
Tasks == 1..NumTasks

F1 == T(<<"f", "1">>)
F2 == T(<<"f", "2">>)
FileIds == {F1, F2}

\* "hi", and a message with a non-ASCII and a control character
Hi == T(<<"h", "i">>)
Messages == {Hi, <<Ord("h"), 233, FORMFEED>>}
FileIdArgs == {PyNone, PyList(<<PyStr(F1)>>)}
GetUrls == {<<"https://mm.example", "/api/v4/users/me">>}

FileNames == <<"a.png", "b.png", "c.png", "d.png">>
FileContents == <<"b1", "b2", "b3", "b4">>
Attachment(i) == <<FileNames[i], FileContents[i]>>

\* every list of at most MaxFiles attachments drawn from the first two
AttachmentLists ==
    UNION {[1..n -> {Attachment(1), Attachment(2)}] : n \in 0..MaxFiles}

\* the list a.png, b.png, ... of MaxFiles distinct attachments
FullAttachmentList == [i \in 1..MaxFiles |-> Attachment(i)]

\* the body the files endpoint answers with for an upload stored as fid
UploadResponse(fid) ==
    PyDict(<< <<K_file_infos, PyList(<<PyDict(<< <<K_id, PyStr(fid)>> >>)>>)>>,
              <<K_client_ids, PyList(<<>>)>> >>)

\* other well-formed bodies: a post, and bodies without file_infos[0].id
OtherValues ==
    { PyDict(<< <<K_id, PyStr(<<Ord("p"), QUOTE, 233, BACKSPACE, Ord("/"), 128512>>)>>,
                <<T(<<"n">>), PyInt(0 - 70)>>,
                <<T(<<"o", "k">>), PyBool(TRUE)>>,
                <<T(<<"x">>), PyNone>>,
                <<T(<<"r">>), PyList(<<PyFloat("+", 15, 0 - 1), PyFloat("-", 2, 3),
                                       PyFloat("+", 1, 22), PyFloat("+", 0, 0),
                                       PyFloat("+", 5, 0 - 324)>>)>> >>),
      PyDict(<<>>),
      PyDict(<< <<K_file_infos, PyList(<<>>)>> >>),
      PyDict(<< <<K_file_infos, PyList(<<PyDict(<< <<T(<<"n">>), PyInt(1)>> >>)>>)>> >>),
      PyList(<<>>) }

\* well-formed texts no serializer of this model writes: whitespace, an
\* exponent, the escapes \/ and \u0041, a surrogate pair, a repeated key
HandWritten ==
    { [text |-> T(<<" ", "{", "\"", "a", "\"", " ", ":", " ", "[", "2", "E", "3", ",", " ",
                    "\"", "\\", "/", "\\", "u", "0", "0", "4", "1", "\"", "]", ",",
                    "\"", "a", "\"", ":", "1", ".", "5", "0", "}", " ">>),
       value |-> PyDict(<< <<T(<<"a">>), PyFloat("+", 15, 0 - 1)>> >>)],
      [text |-> T(<<"[", "\"", "\\", "u", "d", "8", "3", "d", "\\", "u", "D", "E", "0", "0",
                    "\"", ",", "-", "0", ",", "1", "e", "-", "2", "]">>),
       value |-> PyList(<<PyStr(<<128512>>), PyInt(0), PyFloat("+", 1, 0 - 2)>>)] }

\* response texts that are not JSON: empty, HTML, a truncated body, a raw
\* form feed inside a string, a number with nothing after the point
MalformedTexts ==
    { <<>>,
      T(<<"<", "h", "t", "m", "l", ">">>),
      SubSeq(ServerJson(UploadResponse(F1)), 1, 15),
      <<QUOTE, Ord("a"), FORMFEED, QUOTE>>,
      T(<<"1", ".">>) }

\* a response body: its text, and what the service serialized into it
Bodies ==
    {[text |-> ServerJson(UploadResponse(f)), sent |-> <<"json", UploadResponse(f)>>,
      file_id |-> PyStr(f)] : f \in FileIds}
    \cup {[text |-> ServerJson(v), sent |-> <<"json", v>>, file_id |-> PyNone] : v \in OtherValues}
    \cup {[text |-> h.text, sent |-> <<"json", h.value>>, file_id |-> PyNone] : h \in HandWritten}
    \cup {[text |-> t, sent |-> <<"malformed">>, file_id |-> PyNone] : t \in MalformedTexts}

Statuses == {200, 201, 204, 404, 500}
\* the leaf classes of httpx.TransportError
TransportCauses ==
    {"httpx.ConnectTimeout", "httpx.ReadTimeout", "httpx.WriteTimeout", "httpx.PoolTimeout",
     "httpx.ConnectError", "httpx.ReadError", "httpx.WriteError", "httpx.CloseError",
     "httpx.LocalProtocolError", "httpx.RemoteProtocolError",
     "httpx.ProxyError", "httpx.UnsupportedProtocol"}

\* what client.get / client.post can raise: a transport failure, the other
\* subclasses of httpx.HTTPError, and httpx.InvalidURL, which is not one
ClientCauses ==
    TransportCauses \cup {"httpx.TooManyRedirects", "httpx.DecodingError", "httpx.InvalidURL"}

ExceptionReply(cause) ==
    [kind |-> "exception", cause |-> cause, status_code |-> 0, text |-> <<>>,
     sent |-> <<"nothing">>, file_id |-> PyNone]
ResponseReply(code, body) ==
    [kind |-> "response", cause |-> "none", status_code |-> code, text |-> body.text,
     sent |-> body.sent, file_id |-> body.file_id]

\* every way client.get / client.post can complete
AllReplies ==
    {ExceptionReply(cause) : cause \in ClientCauses}
    \cup {ResponseReply(code, body) : code \in Statuses, body \in Bodies}

\* the identifier the service gives the upload in the k-th request of task c:
\* a different identifier for every upload
FreshFileId(c, k) == <<LOWER_F, ZERO + c, ZERO + k>>

\* the completions of the k-th request of task c when several tasks run
\* concurrently: 200 with the body of an upload stored under its fresh
\* identifier, 201 with the body {}, or 500
ConcReplies(c, k) ==
    { ResponseReply(200, [text |-> ServerJson(UploadResponse(FreshFileId(c, k))),
                          sent |-> <<"json", UploadResponse(FreshFileId(c, k))>>,
                          file_id |-> PyStr(FreshFileId(c, k))]),
      ResponseReply(201, [text |-> ServerJson(PyDict(<<>>)),
                          sent |-> <<"json", PyDict(<<>>)>>, file_id |-> PyNone]),
      ResponseReply(500, [text |-> <<>>, sent |-> <<"malformed">>, file_id |-> PyNone]) }

(***************************************************************************)
(* State.                                                                  *)
(***************************************************************************)
VARIABLES
    config,    \* the attributes url, token, channel_id of the Mattermost instance
    pc,        \* per task: "idle"; "get", "post", "upload": suspended in
               \* client.get / client.post; "get_exit", "post_exit",
               \* "upload_exit": the reply delivered, suspended in the
               \* __aexit__ of "async with httpx.AsyncClient()"; "done"
    call,      \* per task: the operation called and its arguments
    idx,       \* per task: position of the for loop of send_message_with_files
    ids,       \* per task: the local list ids of send_message_with_files
    reqs,      \* per task: the HTTP requests it has issued, oldest first
    replies,   \* per task: the completions of those requests, oldest first
    uploads,   \* per task: the outcomes of its upload_file calls, oldest first
    disp,      \* per task: the outcome of its last _send_get / _send_post
    result     \* per task: the outcome of the operation called

vars == <<config, pc, call, idx, ids, reqs, replies, uploads, disp, result>>

NoCall ==
    [op |-> "none", url |-> <<>>, params |-> PyNone, message |-> <<>>,
     file_ids |-> PyNone, filename |-> "", content |-> "", files |-> <<>>]

Init ==
    /\ config = Config0
    /\ pc = [c \in Tasks |-> "idle"]
    /\ call = [c \in Tasks |-> NoCall]
    /\ idx = [c \in Tasks |-> 0]
    /\ ids = [c \in Tasks |-> <<>>]
    /\ reqs = [c \in Tasks |-> <<>>]
    /\ replies = [c \in Tasks |-> <<>>]
    /\ uploads = [c \in Tasks |-> <<>>]
    /\ disp = [c \in Tasks |-> Pending]
    /\ result = [c \in Tasks |-> Pending]

(***************************************************************************)
(* send_message_with_files: the pieces of its loop.                        *)
(***************************************************************************)
\* ids kept in one list shared by every call on the instance
ids_append_shared(c, v) == [d \in Tasks |-> Append(ids[c], v)]

\* ids.insert(0, ...)
ids_prepend(c, v) == [ids EXCEPT ![c] = <<v>> \o ids[c]]

\* ids.append(...) on the list local to the call of task c
ids_append(c, v) == [ids EXCEPT ![c] = Append(ids[c], v)]

\* the failure of an upload caught and the loop continued
upload_aborts_never(u) == FALSE

\* an exception raised by "await self.upload_file(...)" leaves the loop and
\* send_message_with_files
upload_aborts(u) == u.kind = "raise"

(***************************************************************************)
(* Actions: a task calls an operation and runs it to its first await.      *)
(***************************************************************************)
Call_send_get(c, url, params) ==
    /\ pc[c] = "idle"
    /\ call' = [call EXCEPT ![c] = [NoCall EXCEPT !.op = "_send_get", !.url = url,
                                                  !.params = params]]
    /\ reqs' = [reqs EXCEPT ![c] = <<GetRequest(config, url, params)>>]
    /\ pc' = [pc EXCEPT ![c] = "get"]
    /\ UNCHANGED <<config, idx, ids, replies, uploads, disp, result>>

Call_send_message(c, message, file_ids) ==
    /\ pc[c] = "idle"
    /\ call' = [call EXCEPT ![c] = [NoCall EXCEPT !.op = "send_message",
                                                  !.message = message,
                                                  !.file_ids = file_ids]]
    /\ reqs' = [reqs EXCEPT ![c] = <<send_message_request(config, message, file_ids)>>]
    /\ pc' = [pc EXCEPT ![c] = "post"]
    /\ UNCHANGED <<config, idx, ids, replies, uploads, disp, result>>

Call_upload_file(c, filename, content) ==
    /\ pc[c] = "idle"
    /\ call' = [call EXCEPT ![c] = [NoCall EXCEPT !.op = "upload_file",
                                                  !.filename = filename,
                                                  !.content = content]]
    /\ reqs' = [reqs EXCEPT ![c] = <<upload_file_request(config, filename, content)>>]
    /\ pc' = [pc EXCEPT ![c] = "upload"]
    /\ UNCHANGED <<config, idx, ids, replies, uploads, disp, result>>

Call_send_message_with_files(c, message, additional_files) ==
    /\ pc[c] = "idle"
    /\ call' = [call EXCEPT ![c] = [NoCall EXCEPT !.op = "send_message_with_files",
                                                  !.message = message,
                                                  !.files = additional_files]]
    /\ ids' = [ids EXCEPT ![c] = <<>>]
    /\ IF additional_files = <<>>
       THEN /\ reqs' = [reqs EXCEPT ![c] =
                           <<send_message_request(config, message, PyList(<<>>))>>]
            /\ pc' = [pc EXCEPT ![c] = "post"]
            /\ idx' = idx
       ELSE /\ reqs' = [reqs EXCEPT ![c] =
                           <<upload_file_request(config, additional_files[1][1],
                                                 additional_files[1][2])>>]
            /\ pc' = [pc EXCEPT ![c] = "upload"]
            /\ idx' = [idx EXCEPT ![c] = 1]
    /\ UNCHANGED <<config, replies, uploads, disp, result>>

(***************************************************************************)
(* Actions: client.get / client.post returns or raises inside the "async   *)
(* with" block, and the task is suspended again while the block is left:   *)
(* AsyncClient.__aexit__ awaits the closing of the connection.             *)
(***************************************************************************)
\* result = await client.get(...), in one of the ways of Replies
ClientGetReturns(c, Replies) ==
    /\ pc[c] = "get"
    /\ \E reply \in Replies : replies' = [replies EXCEPT ![c] = Append(@, reply)]
    /\ pc' = [pc EXCEPT ![c] = "get_exit"]
    /\ UNCHANGED <<config, call, idx, ids, reqs, uploads, disp, result>>

\* result = await client.post(...), in one of the ways of Replies
ClientPostReturns(c, Replies) ==
    /\ pc[c] \in {"post", "upload"}
    /\ \E reply \in Replies : replies' = [replies EXCEPT ![c] = Append(@, reply)]
    /\ pc' = [pc EXCEPT ![c] = IF pc[c] = "post" THEN "post_exit" ELSE "upload_exit"]
    /\ UNCHANGED <<config, call, idx, ids, reqs, uploads, disp, result>>

\* the reply the dispatcher of task c holds in result (or the exception it
\* is raising) while it leaves the "async with" block
LastReply(c) == replies[c][Len(replies[c])]

(***************************************************************************)
(* Actions: the "async with" block is left and the task runs on to its     *)
(* next await or to the end of the operation.                              *)
(***************************************************************************)
\* _send_get, called directly, goes on after the block
SendGetCompletes(c) ==
    /\ pc[c] = "get_exit"
    /\ disp' = [disp EXCEPT ![c] = send_get(LastReply(c))]
    /\ result' = [result EXCEPT ![c] = disp'[c]]
    /\ pc' = [pc EXCEPT ![c] = "done"]
    /\ UNCHANGED <<config, call, idx, ids, reqs, replies, uploads>>

\* _send_post goes on after the block under send_message (called directly,
\* or by send_message_with_files after its loop)
PostCompletes(c) ==
    /\ pc[c] = "post_exit"
    /\ disp' = [disp EXCEPT ![c] = send_post(LastReply(c))]
    /\ result' = [result EXCEPT ![c] = send_message(disp'[c])]
    /\ pc' = [pc EXCEPT ![c] = "done"]
    /\ UNCHANGED <<config, call, idx, ids, reqs, replies, uploads>>

\* _send_post goes on after the block under upload_file called directly
UploadFileCompletes(c) ==
    /\ pc[c] = "upload_exit"
    /\ call[c].op = "upload_file"
    /\ disp' = [disp EXCEPT ![c] = send_post(LastReply(c))]
    /\ uploads' = [uploads EXCEPT ![c] = Append(@, upload_file(disp'[c]))]
    /\ result' = [result EXCEPT ![c] = upload_file(disp'[c])]
    /\ pc' = [pc EXCEPT ![c] = "done"]
    /\ UNCHANGED <<config, call, idx, ids, reqs, replies>>

\* _send_post goes on after the block under upload_file called by the loop
\* of send_message_with_files
AttachmentUploadCompletes(c) ==
    /\ pc[c] = "upload_exit"
    /\ call[c].op = "send_message_with_files"
    /\ disp' = [disp EXCEPT ![c] = send_post(LastReply(c))]
    /\ LET u == upload_file(disp'[c])
           files == call[c].files
           appended == ids_append(c, u.value)
       IN  /\ uploads' = [uploads EXCEPT ![c] = Append(@, u)]
           /\ IF upload_aborts(u)
              THEN /\ result' = [result EXCEPT ![c] = u]
                   /\ pc' = [pc EXCEPT ![c] = "done"]
                   /\ UNCHANGED <<idx, ids, reqs>>
              ELSE /\ ids' = appended
                   /\ result' = result
                   /\ IF idx[c] < Len(files)
                      THEN /\ idx' = [idx EXCEPT ![c] = @ + 1]
                           /\ reqs' = [reqs EXCEPT ![c] = Append(@,
                                          upload_file_request(config, files[idx[c] + 1][1],
                                                              files[idx[c] + 1][2]))]
                           /\ pc' = [pc EXCEPT ![c] = "upload"]
                      ELSE /\ idx' = idx
                           /\ reqs' = [reqs EXCEPT ![c] = Append(@,
                                          send_message_request(config, call[c].message,
                                                               PyList(appended[c])))]
                           /\ pc' = [pc EXCEPT ![c] = "post"]
    /\ UNCHANGED <<config, call, replies>>

(***************************************************************************)
(* Specifications.                                                         *)
(***************************************************************************)
\* one task, every operation, every completion
Next ==
    \E c \in {1} :
        \/ \E url \in GetUrls : Call_send_get(c, url, PyNone)
        \/ \E m \in Messages, f \in FileIdArgs : Call_send_message(c, m, f)
        \/ \E i \in 1..2 : Call_upload_file(c, FileNames[i], FileContents[i])
        \/ \E fs \in AttachmentLists : Call_send_message_with_files(c, Hi, fs)
        \/ ClientGetReturns(c, AllReplies)
        \/ ClientPostReturns(c, AllReplies)
        \/ SendGetCompletes(c)
        \/ PostCompletes(c)
        \/ UploadFileCompletes(c)
        \/ AttachmentUploadCompletes(c)

Spec == Init /\ [][Next]_vars

\* NumTasks tasks on the same instance, interleaved wherever a task is
\* suspended: in client.get / client.post and in leaving the "async with"
\* block; every operation
NextConc ==
    \E c \in Tasks :
        \/ \E url \in GetUrls : Call_send_get(c, url, PyNone)
        \/ Call_send_message(c, Hi, PyNone)
        \/ Call_upload_file(c, FileNames[1], FileContents[1])
        \/ Call_send_message_with_files(c, Hi, FullAttachmentList)
        \/ ClientGetReturns(c, ConcReplies(c, Len(replies[c]) + 1))
        \/ ClientPostReturns(c, ConcReplies(c, Len(replies[c]) + 1))
        \/ SendGetCompletes(c)
        \/ PostCompletes(c)
        \/ UploadFileCompletes(c)
        \/ AttachmentUploadCompletes(c)

SpecConc == Init /\ [][NextConc]_vars

(***************************************************************************)
(* Properties.                                                             *)
(***************************************************************************)
\* the last request of task c was answered and the dispatcher has left its
\* "async with" block and acted on the answer
Answered(c) == replies[c] # <<>> /\ pc[c] \notin {"get_exit", "post_exit", "upload_exit"}
IsSwf(c) == call[c].op = "send_message_with_files"

\* the file_ids member of the JSON document a create-post request carries
PostedFileIds(req) ==
    GetItem(json_loads(req.data[2]).value, PyStr(K_file_ids)).value

\* the identifiers the service returned for the first n uploads of task c
ReturnedIds(c, n) == [i \in 1..n |-> replies[c][i].file_id]

\* C1: a request answered with status 404 fails with NotFoundError, which a
\* handler for ReqError and one for MattermostError catch; it is not a plain
\* ReqError carrying the code, and the operation does not succeed.
C1_NotFound ==
    \A c \in Tasks :
        (Answered(c) /\ LastReply(c).kind = "response" /\ LastReply(c).status_code = 404)
        => /\ disp[c].kind = "raise"
           /\ disp[c].exc.cls = "NotFoundError"
           /\ IsSubclass(disp[c].exc.cls, "ReqError")
           /\ IsSubclass(disp[c].exc.cls, "MattermostError")
           /\ 404 \notin {disp[c].exc.args[i] : i \in 2..Len(disp[c].exc.args)}
           /\ pc[c] = "done"
           /\ result[c] = disp[c]

C1_Witness ==
    \E c \in Tasks :
        /\ call[c].op = "_send_get"
        /\ pc[c] = "done"
        /\ LastReply(c).status_code = 404
        /\ LastReply(c).sent[1] = "json"

\* C2: a request answered with a status other than 200, 201 and 404 fails with
\* a ReqError that carries that status code and is not a NotFoundError,
\* whatever the body; no value is returned.
C2_OtherStatus ==
    \A c \in Tasks :
        (Answered(c) /\ LastReply(c).kind = "response"
                     /\ LastReply(c).status_code \notin {200, 201, 404})
        => /\ disp[c] = Raise(Exc("ReqError",
                              <<"Got error status code, ", LastReply(c).status_code>>, "none"))
           /\ ~IsSubclass(disp[c].exc.cls, "NotFoundError")
           /\ pc[c] = "done"
           /\ result[c] = disp[c]

C2_Witness ==
    \E c \in Tasks :
        /\ call[c].op = "upload_file"
        /\ pc[c] = "done"
        /\ LastReply(c).status_code = 204
        /\ LastReply(c).file_id = PyStr(F1)

\* C3: a request answered with 200 or 201 and a body that is not JSON fails
\* with an exception that a handler for ReqError catches.
C3_DecodeFailureIsReqError ==
    \A c \in Tasks :
        (Answered(c) /\ LastReply(c).kind = "response"
                     /\ LastReply(c).status_code \in {200, 201}
                     /\ LastReply(c).sent = <<"malformed">>)
        => /\ disp[c].kind = "raise"
           /\ IsSubclass(disp[c].exc.cls, "ReqError")

\* C4: upload_file issues one raw-content POST to the files endpoint; answered
\* with 200 or 201 it returns file_infos[0].id of the decoded body, and when
\* that path is absent it fails with an exception a handler for ReqError
\* catches.
C4_UploadResult ==
    \A c \in Tasks :
        (call[c].op = "upload_file" /\ pc[c] = "done")
        => /\ reqs[c] = <<upload_file_request(config, call[c].filename, call[c].content)>>
           /\ reqs[c][1].data = PyNone
           /\ reqs[c][1].content = <<"bytes", call[c].content>>
           /\ (LastReply(c).status_code \in {200, 201} /\ LastReply(c).file_id # PyNone)
              => result[c] = Return(LastReply(c).file_id)
           /\ (LastReply(c).status_code \in {200, 201} /\ LastReply(c).sent[1] = "json"
                                                        /\ LastReply(c).file_id = PyNone)
              => (result[c].kind = "raise" /\ IsSubclass(result[c].exc.cls, "ReqError"))

\* C5: send_message_with_files issues its uploads one at a time in the order of
\* the attachments, and then one create-post request whose file_ids are the
\* identifiers returned by those uploads, in that order.
C5_UploadsInOrderThenPost ==
    \A c \in Tasks :
        IsSwf(c) =>
        LET n == Len(call[c].files) IN
        /\ Len(reqs[c]) <= Len(replies[c]) + 1
        /\ Len(reqs[c]) <= n + 1
        /\ \A i \in 1..Len(reqs[c]) :
               i <= n => reqs[c][i] = upload_file_request(config, call[c].files[i][1],
                                                          call[c].files[i][2])
        /\ Len(reqs[c]) = n + 1
           => /\ reqs[c][n + 1] = send_message_request(config, call[c].message,
                                                       PyList(ReturnedIds(c, n)))
              /\ PostedFileIds(reqs[c][n + 1]) = PyList(ReturnedIds(c, n))
        /\ result[c].kind = "return" => Len(reqs[c]) = n + 1 /\ Len(replies[c]) = n + 1

C5_Witness ==
    \E c \in Tasks :
        /\ IsSwf(c)
        /\ Len(call[c].files) = 2
        /\ call[c].files[1] # call[c].files[2]
        /\ result[c].kind = "return"
        /\ replies[c][1].file_id = PyStr(F2)
        /\ replies[c][2].file_id = PyStr(F1)

\* C6: when the upload of the k-th attachment fails, no later upload and no
\* create-post request is issued, nothing but uploads has been requested, and
\* send_message_with_files fails with the failure of that upload.
C6_FailFast ==
    \A c \in Tasks :
        IsSwf(c) =>
        \A k \in 1..Len(uploads[c]) :
            uploads[c][k].kind = "raise"
            => /\ k = Len(uploads[c])
               /\ Len(reqs[c]) = k
               /\ \A i \in 1..k :
                      reqs[c][i] = upload_file_request(config, call[c].files[i][1],
                                                       call[c].files[i][2])
               /\ pc[c] = "done"
               /\ result[c] = uploads[c][k]

C6_Witness ==
    \E c \in Tasks :
        /\ IsSwf(c)
        /\ Len(call[c].files) = 2
        /\ Len(uploads[c]) = 2
        /\ uploads[c][1].kind = "return"
        /\ uploads[c][2].kind = "raise"
        /\ pc[c] = "done"

\* C7: a transport failure of client.get / client.post makes the request fail
\* with a ReqError that wraps the transport exception, and every GET is sent
\* with the timeout of 10.
C7_TransportFailure ==
    \A c \in Tasks :
        /\ \A i \in 1..Len(reqs[c]) :
               reqs[c][i].method = "GET" => reqs[c][i].timeout = PyInt(10)
        /\ (Answered(c) /\ LastReply(c).kind = "exception"
                        /\ IsSubclass(LastReply(c).cause, "httpx.TransportError"))
           => /\ disp[c] = Raise(Exc("ReqError", <<LastReply(c).cause>>, LastReply(c).cause))
              /\ pc[c] = "done"
              /\ result[c] = disp[c]

C7_Witness ==
    \E c \in Tasks :
        /\ call[c].op = "_send_get"
        /\ pc[c] = "done"
        /\ LastReply(c).kind = "exception"
        /\ LastReply(c).cause = "httpx.ReadTimeout"
        /\ reqs[c][1].timeout = PyInt(10)

\* C8: a request answered with 200 or 201 and a well-formed JSON body returns
\* the structure the service serialized, unchanged.
C8_DecodedUnchanged ==
    \A c \in Tasks :
        (Answered(c) /\ LastReply(c).kind = "response"
                     /\ LastReply(c).status_code \in {200, 201}
                     /\ LastReply(c).sent[1] = "json")
        => /\ disp[c] = Return(LastReply(c).sent[2])
           /\ call[c].op = "_send_get" => result[c] = disp[c]

C8_Witness ==
    \E c \in Tasks :
        /\ call[c].op = "_send_get"
        /\ pc[c] = "done"
        /\ LastReply(c).status_code = 201
        /\ result[c].kind = "return"
        /\ result[c].value[1] = "dict"
        /\ Len(result[c].value[2]) = 5
        /\ GetItem(result[c].value, PyStr(T(<<"r">>))).value[2][1] = PyFloat("+", 15, 0 - 1)
        /\ GetItem(result[c].value, PyStr(T(<<"r">>))).value[2][5] = PyFloat("+", 5, 0 - 324)

\* C9: no request is retried and no failure swallowed: send_message and
\* upload_file issue one request, send_message_with_files with n attachments
\* at most n + 1 (n + 1 when it succeeds, k when its k-th upload fails), a
\* request is only ever followed by another after it succeeded, and a failure
\* of the dispatcher ends the operation with that failure.
C9_NoRetryNoSwallow ==
    \A c \in Tasks :
        LET n == Len(call[c].files) IN
        /\ call[c].op \in {"_send_get", "send_message", "upload_file"} => Len(reqs[c]) = 1
        /\ IsSwf(c) => /\ Len(reqs[c]) <= n + 1
                       /\ result[c].kind = "return" => Len(reqs[c]) = n + 1
                       /\ (pc[c] = "done" /\ uploads[c] # <<>>
                             /\ uploads[c][Len(uploads[c])].kind = "raise")
                          => Len(reqs[c]) = Len(uploads[c])
        /\ Len(replies[c]) <= Len(reqs[c])
        /\ \A i \in 1..Len(reqs[c]) - 1 :
               /\ i <= Len(uploads[c])
               /\ uploads[c][i].kind = "return"
        /\ disp[c].kind = "raise" => (pc[c] = "done" /\ result[c] = disp[c])
        /\ pc[c] = "done" => Len(replies[c]) = Len(reqs[c])

C9_Witness ==
    \E c \in Tasks :
        /\ IsSwf(c)
        /\ Len(call[c].files) = 2
        /\ Len(reqs[c]) = 3
        /\ pc[c] = "done"
        /\ LastReply(c).status_code = 500
        /\ result[c].kind = "raise"

\* C10: with tasks interleaved at their awaits on one instance, url, token and
\* channel_id keep their values, and the create-post request of each
\* send_message_with_files call carries the identifiers returned by its own
\* uploads, in order, and none returned to another task.
C10_Isolation ==
    /\ config = Config0
    /\ \A c \in Tasks :
          (IsSwf(c) /\ Len(reqs[c]) = Len(call[c].files) + 1)
          => LET n == Len(call[c].files)
                 posted == PostedFileIds(reqs[c][n + 1])
             IN  /\ posted = PyList(ReturnedIds(c, n))
                 /\ \A d \in Tasks \ {c} :
                        \A j \in 1..Len(replies[d]) :
                            \A i \in 1..Len(posted[2]) :
                                posted[2][i] # replies[d][j].file_id

C10_Witness ==
    /\ pc[1] = "post"
    /\ pc[2] = "post"
    /\ IsSwf(1) /\ Len(reqs[1]) = MaxFiles + 1
    /\ IsSwf(2) /\ Len(reqs[2]) = MaxFiles + 1

=============================================================================
